---- MODULE Spec2Model ----
(***************************************************************************)
(* Model of main.c of wasm_challenge: a chain of seven digit handlers that *)
(* rewrite window.console.log, the debugger/self-inspection guard (hello,  *)
(* debugger_check) and the anti-automation timer (first_press).            *)
(*                                                                         *)
(* The program state is the three C statics, the two host properties       *)
(* window.console.log / window.console.assert and the host clock.  Every   *)
(* handler is one atomic step (the host is single threaded).               *)
(***************************************************************************)
EXTENDS Integers, Sequences, FiniteSets

\* ------------------------------------------------------------------ bounds
StartTime == 2          \* time(NULL) at load; any value > 1 (first_press starts at 0)
MaxTicks == 2           \* how far the host clock may advance in a run
MaxAlerts == 2          \* how many success alerts a run may show
MaxFails == 2           \* stage-1 failures the reset monitor tells apart

MaxProbe == 64          \* the bit test is tried on -MaxProbe..MaxProbe and the int limits
MaxLoads == 3           \* calls of one payload handler in a run of the payload steps

MaxTime == StartTime + MaxTicks

\* values a button press (or any caller of console.log) may pass
Inputs == {1, 2, 3, 4, 7, 8, 9, 12}

\* after - before in debugger_check: no pause, or a pause that the clock shows
Delays == {0, 1}

\* ------------------------------------------------------- host functions
\* what window.console.log / window.console.assert can hold
NativeLog == "native_log"
NativeAssert == "native_assert"
Natives == {NativeLog, NativeAssert}

\* the hooks, named by the export their closure ccalls, in chain order
StageHooks == <<"__syscall80", "__syscall72", "__syscall42", "__syscall18",
                "the_end", "__syscall12", "__syscall188">>

StageSet == {StageHooks[i] : i \in 1..7}

\* the text ASM_CONSTS[0].toString() may have: untouched, or edited
AsmConstTexts == {"function(){debugger}", "function(){}"}

\* main's arguments
Argcs == {1, 2}
Argv0s == {"./this.program", "./a.out"}

\* ------------------------------------------------------------- byte ops
RECURSIVE BitXor(_, _, _)
BitXor(a, b, n) ==
    IF n = 0 THEN 0
    ELSE (((a % 2) + (b % 2)) % 2) + 2 * BitXor(a \div 2, b \div 2, n - 1)

\* the decode with the mask one bit short: & 0x7f
xor_byte_Mask7(b, key) == BitXor(b, key, 32) % 128

\* (wasm[i] ^ 0xaa) & 0xff
xor_byte(b, key) == BitXor(b, key, 32) % 256

\* the exported function of xor_decode: local.get 0; i32.const 0xbb; i32.xor
lolwat(b) == BitXor(b, 187, 32)

\* The code section of every validator module is its last six bytes:
\* local.get 0 (32 0); i32.const K (65 K); i32.eq (70); end (11).
\* A module whose tail is anything else does not instantiate to a predicate.
CodeTail(bytes) == SubSeq(bytes, Len(bytes) - 5, Len(bytes))

RunPredicate(bytes, p_value) ==
    LET c == IF Len(bytes) >= 6 THEN CodeTail(bytes) ELSE <<0, 0, 0, 0, 0, 0>> IN
    IF Len(bytes) >= 6 /\ c[1] = 32 /\ c[2] = 0 /\ c[3] = 65 /\ c[4] < 64
       /\ c[5] = 70 /\ c[6] = 11
    THEN (IF p_value = c[4] THEN 1 ELSE 0)
    ELSE -1

wasm72 == <<0,97,115,109,1,0,0,0,1,134,128,128,128,0,1,96,1,127,1,127,3,130,
            128,128,128,0,1,0,4,132,128,128,128,0,1,112,0,0,5,131,128,128,
            128,0,1,0,1,6,129,128,128,128,0,0,7,146,128,128,128,0,2,6,109,
            101,109,111,114,121,2,0,5,111,104,95,110,111,0,0,10,141,128,128,
            128,0,1,135,128,128,128,0,0,32,0,65,9,70,11>>

wasm42 == <<0,97,115,109,1,0,0,0,1,6,1,96,
            1,127,1,127,3,2,1,0,7,10,1,6,
            95,111,104,95,110,111,0,0,10,9,1,7,
            0,32,0,65,4,70,11>>

wasm18 == <<170,203,217,199,171,170,170,170,171,44,42,42,42,170,171,202,
            171,213,171,213,169,40,42,42,42,170,171,170,174,46,42,42,
            42,170,171,218,170,170,175,41,42,42,42,170,171,170,171,172,
            43,42,42,42,170,170,173,56,42,42,42,170,168,172,199,207,
            199,197,216,211,168,170,175,197,194,245,196,197,170,170,160,39,
            42,42,42,170,171,45,42,42,42,170,170,138,170,235,173,236,
            161>>

wasmCode == <<187,218,200,214,186,187,187,187,186,61,59,59,59,187,186,219,
              186,196,186,196,184,57,59,59,59,187,186,187,191,63,59,59,
              59,187,186,203,187,187,190,56,59,59,59,187,186,187,186,189,
              58,59,59,59,187,187,188,47,59,59,59,187,185,189,214,222,
              214,212,201,194,185,187,188,204,222,207,200,218,213,223,187,187,
              177,54,59,59,59,187,186,60,59,59,59,187,187,155,187,250,
              191,253,176>>

\* the two handlers that decode a payload
PayloadHandlers == {"__syscall18", "the_end"}

\* a wasm array that is static: initialised once, then kept as the last call left it
Load18_Static(mem) == IF mem = <<>> THEN wasm18 ELSE mem

\* char wasm[97] = { 170, ... }: an automatic array with an initialiser, so
\* every call starts from the literal whatever mem the last call left
Load18(mem) == wasm18

\* var wasmCode = new Uint8Array([ 187, ... ]): a new array on every call
LoadEnd(mem) == wasmCode

\* for (i = 0; i < 97; i++) wasm[i] = (wasm[i] ^ 0xaa) & 0xff;
Payload18(mem) ==
    LET wasm == Load18(mem) IN [i \in 1..Len(wasm) |-> xor_byte(wasm[i], 170)]

\* for (i...) wasmCode[i] = xor_instance.exports.lolwat(wasmCode[i]);
\* the store into the Uint8Array keeps the low eight bits
PayloadEnd(mem) ==
    LET code == LoadEnd(mem) IN [i \in 1..Len(code) |-> lolwat(code[i]) % 256]

\* what __syscall18 instantiates
decode18 == Payload18(<<>>)

\* what the_end instantiates
decodeEnd == PayloadEnd(<<>>)

\* ------------------------------------------------------------ the state
VARIABLES
    first_press,      \* static int first_press
    g_func_ptr,       \* static void (*g_func_ptr)(): 0, or table index 1
    log_stored,       \* static int log_stored
    console_log,      \* window['console']['log']
    console_assert,   \* window['console']['assert']
    now,              \* time(NULL)
    alerts,           \* number of success alerts shown
    started,          \* hello and main have run
    exited,           \* main called exit(0)
    \* ---- observers of the run; no handler reads them
    last,             \* the last call of console.log and what it did
    matched,          \* length of the longest suffix of the inputs so far
                      \* that is a prefix of the answer
    script,           \* inputs of the documented winning run delivered so far, -1 once off it
    fails,            \* clean stage-1 failures before the winning run, capped
    trapped,          \* the fifth-digit handler took its failure path
    tooFast,          \* the fifth-digit handler ran within a second of first_press
                      \* and no first digit was accepted since
    boot,             \* what the guard reported when hello ran at page load
    \* ---- the payload and bit operations run on their own
    px,               \* the last operation applied, its inputs and its result
    mem18,            \* char wasm[97] of __syscall18 as its last call left it
    memEnd,           \* wasmCode of the_end as its last call left it
    loads             \* calls of each payload handler so far

prog == <<first_press, g_func_ptr, log_stored, console_log, console_assert,
          now, alerts, started, exited>>

obs == <<last, matched, script, fails, trapped, tooFast, boot>>

pure == <<px, mem18, memEnd, loads>>

vars == <<first_press, g_func_ptr, log_stored, console_log, console_assert,
          now, alerts, started, exited, last, matched, script, fails,
          trapped, tooFast, boot, px, mem18, memEnd, loads>>

\* the part of the state the C functions and their EM_ASM blocks touch
Cur == [first_press |-> first_press, g_func_ptr |-> g_func_ptr,
        log_stored |-> log_stored, console_log |-> console_log,
        console_assert |-> console_assert, now |-> now]

\* delete window['console']['log'];
\* window['console']['log'] = window['console']['assert'];
RestoreLog(s) == [s EXCEPT !.console_log = s.console_assert]

\* window['console']['log'] = function(param) { Module.ccall(f, ...) }
SetLog(s, f) == [s EXCEPT !.console_log = f]

\* ---------------------------------------------------------- the C code
\* debugger_check that restores console.log without looking at log_stored
debugger_check_Always(s, d) ==
    LET t == [s EXCEPT !.now = s.now + d] IN
    IF d # 0 THEN [ret |-> 1, s |-> RestoreLog(t)] ELSE [ret |-> 0, s |-> t]

\* debugger_check that reports the pause but leaves console.log alone
debugger_check_NoRestore(s, d) ==
    LET t == [s EXCEPT !.now = s.now + d] IN
    [ret |-> IF d # 0 THEN 1 ELSE 0, s |-> t]

\* d is the time the debugger statement takes
debugger_check(s, d) ==
    LET t == [s EXCEPT !.now = s.now + d] IN
    IF d # 0
    THEN [ret |-> 1, s |-> IF t.log_stored = 1 THEN RestoreLog(t) ELSE t]
    ELSE [ret |-> 0, s |-> t]

\* hello that installs the first-digit hook only the first time
hello_ArmOnce(s, d, js) ==
    LET dc == debugger_check(s, d)
    IN  IF dc.ret = 1
        THEN [s |-> dc.s, report |-> "inspector"]
        ELSE IF js # "function(){debugger}"
        THEN [s |-> IF dc.s.log_stored = 1 THEN RestoreLog(dc.s) ELSE dc.s,
              report |-> "tampered"]
        ELSE IF dc.s.log_stored = 1
        THEN [s |-> RestoreLog(dc.s), report |-> "clean"]
        ELSE [s |-> [dc.s EXCEPT !.log_stored = 1,
                                 !.console_assert = dc.s.console_log,
                                 !.console_log = "__syscall80"],
              report |-> "clean"]

\* js is ASM_CONSTS[0].toString()
hello(s, d, js) ==
    LET dc == debugger_check(s, d)
        expected == "function(){debugger}"
        result == IF js = expected THEN 1 ELSE 0
    IN  IF dc.ret = 1
        THEN [s |-> dc.s, report |-> "inspector"]
        ELSE IF result # 1
        THEN [s |-> IF dc.s.log_stored = 1 THEN RestoreLog(dc.s) ELSE dc.s,
              report |-> "tampered"]
        ELSE [s |-> [dc.s EXCEPT !.log_stored = 1,
                                 !.console_assert = dc.s.console_log,
                                 !.console_log = "__syscall80"],
              report |-> "clean"]

\* call_me_indirectly that installs the third-digit hook
call_me_indirectly_Skip(s, p_value, d, js) ==
    IF p_value = 1
    THEN [s |-> SetLog(s, "__syscall42"), report |-> "clean"]
    ELSE hello(s, d, js)

call_me_indirectly(s, p_value, d, js) ==
    IF p_value = 1
    THEN [s |-> SetLog(s, "__syscall72"), report |-> "clean"]
    ELSE hello(s, d, js)

\* __syscall80 that stores the time only when the digit is 1
__syscall80_StampOnMatch(s, p_value, d1, d2, js) ==
    LET dc == debugger_check(s, d1)
        t == IF p_value = 1 THEN [dc.s EXCEPT !.first_press = dc.s.now] ELSE dc.s
    IN  IF dc.ret = 1
        THEN [s |-> dc.s, ran |-> FALSE, report |-> "inspector", alerted |-> FALSE]
        ELSE LET c == call_me_indirectly(t, p_value, d2, js)
             IN  [s |-> c.s, ran |-> TRUE, report |-> c.report, alerted |-> FALSE]

\* __syscall80 that runs debugger_check but does not return on its result
__syscall80_NoReturn(s, p_value, d1, d2, js) ==
    LET dc == debugger_check(s, d1)
        t == [dc.s EXCEPT !.first_press = dc.s.now]
        c == call_me_indirectly(t, p_value, d2, js)
    IN  [s |-> c.s, ran |-> TRUE, report |-> c.report, alerted |-> FALSE]

\* Every handler yields the new state and, for the observers, whether its
\* digit check ran, what the guard reported ("none": it was not called) and
\* whether the success alert was shown.
__syscall80(s, p_value, d1, d2, js) ==
    LET dc == debugger_check(s, d1)
        t == [dc.s EXCEPT !.first_press = dc.s.now]
    IN  IF dc.ret = 1
        THEN [s |-> dc.s, ran |-> FALSE, report |-> "inspector", alerted |-> FALSE]
        ELSE IF t.g_func_ptr = 1
        THEN LET c == call_me_indirectly(t, p_value, d2, js)
             IN  [s |-> c.s, ran |-> TRUE, report |-> c.report, alerted |-> FALSE]
        ELSE \* call through a null table entry: the call traps
             [s |-> t, ran |-> FALSE, report |-> "clean", alerted |-> FALSE]

\* a handler that forgets hello() on a mismatch
Advance_NoReset(s, result, next, d, js) ==
    IF result = 1
    THEN [s |-> SetLog(s, next), ran |-> TRUE, report |-> "none", alerted |-> FALSE]
    ELSE [s |-> s, ran |-> TRUE, report |-> "none", alerted |-> FALSE]

\* the shape shared by the second, third, fourth and sixth digit handlers:
\* install next on a match, hello() otherwise
Advance(s, result, next, d, js) ==
    IF result = 1
    THEN [s |-> SetLog(s, next), ran |-> TRUE, report |-> "none", alerted |-> FALSE]
    ELSE LET h == hello(s, d, js)
         IN  [s |-> h.s, ran |-> TRUE, report |-> h.report, alerted |-> FALSE]

__syscall72(s, p_value, d, js) ==
    Advance(s, RunPredicate(wasm72, p_value), "__syscall42", d, js)

__syscall42(s, p_value, d, js) ==
    Advance(s, RunPredicate(wasm42, p_value), "__syscall18", d, js)

__syscall18(s, p_value, d, js) ==
    Advance(s, RunPredicate(decode18, p_value), "the_end", d, js)

\* the_end with the timer test off by one: > 2 for > 1
the_end_OffByOne(s, p_value) ==
    LET timed == (s.now - s.first_press) > 2
        result == IF timed THEN RunPredicate(decodeEnd, p_value) ELSE 0
    IN  IF result = 1
        THEN [s |-> SetLog(s, "__syscall12"), ran |-> timed, report |-> "none",
              alerted |-> FALSE]
        ELSE [s |-> RestoreLog(s), ran |-> timed, report |-> "none",
              alerted |-> FALSE]

the_end(s, p_value) ==
    LET are_you_a_bot == s.now
        timed == (are_you_a_bot - s.first_press) > 1
        result == IF timed THEN RunPredicate(decodeEnd, p_value) ELSE 0
    IN  IF result = 1
        THEN [s |-> SetLog(s, "__syscall12"), ran |-> timed, report |-> "none",
              alerted |-> FALSE]
        ELSE \* log is restored, _stage_one traps, the catch swallows it
             [s |-> RestoreLog(s), ran |-> timed, report |-> "none",
              alerted |-> FALSE]

\* the bit test without its test of bit 2
BitTest12_NoBit2(p_value) ==
    /\ p_value % 4 = 0
    /\ p_value \div 8 = 1

\* (p_value & 0x03) == 0 && (p_value & 0x04) == 0 && (p_value >> 3) == 1
BitTest12(p_value) ==
    /\ p_value % 4 = 0
    /\ (p_value \div 4) % 2 = 0
    /\ p_value \div 8 = 1

__syscall12(s, p_value, d, js) ==
    Advance(s, IF BitTest12(p_value) THEN 1 ELSE 0, "__syscall188", d, js)

\* __syscall188 that resets only when the digit is wrong
__syscall188_ElseReset(s, p_value, d, js) ==
    IF p_value = 2
    THEN [s |-> s, ran |-> TRUE, report |-> "none", alerted |-> TRUE]
    ELSE LET h == hello(s, d, js)
         IN  [s |-> h.s, ran |-> TRUE, report |-> h.report, alerted |-> FALSE]

__syscall188(s, p_value, d, js) ==
    LET h == hello(s, d, js)
    IN  [s |-> h.s, ran |-> TRUE, report |-> h.report, alerted |-> (p_value = 2)]

\* main that exits without restoring console.log
main_NoTearDown(s, p_argc, p_argv0) ==
    IF p_argc # 1 \/ p_argv0 # "./this.program"
    THEN [s |-> s, exit |-> TRUE]
    ELSE [s |-> [s EXCEPT !.g_func_ptr = 1], exit |-> FALSE]

\* main(): the launch check
main(s, p_argc, p_argv0) ==
    IF p_argc # 1 \/ p_argv0 # "./this.program"
    THEN [s |-> RestoreLog(s), exit |-> TRUE]
    ELSE [s |-> [s EXCEPT !.g_func_ptr = 1], exit |-> FALSE]

\* ------------------------------------------------------------ observers
\* The answer: 1947482
Secret == <<1, 9, 4, 7, 4, 8, 2>>

IsPrefix(p, q) == Len(p) <= Len(q) /\ SubSeq(q, 1, Len(p)) = p

Suffix(q, n) == SubSeq(q, Len(q) - n + 1, Len(q))

\* the longest suffix of q that is a prefix of the answer
LongestMatch(q) ==
    LET ok == {n \in 0..Len(q) : n <= Len(Secret) /\ IsPrefix(Suffix(q, n), Secret)}
    IN  CHOOSE n \in ok : \A m \in ok : m <= n

\* matched after one more input: the inputs that matter are the matched
\* prefix of the answer followed by the new input
NextMatched(m, v) == LongestMatch(Append(SubSeq(Secret, 1, m), v))

Min(a, b) == IF a <= b THEN a ELSE b

Clean(d1, d2, js) == d1 = 0 /\ d2 = 0 /\ js = "function(){debugger}"

\* script and fails after an input: the run followed is any number of clean
\* wrong first digits, then 1,9,4,7, a wait of more than one second, 4,8,2,
\* every guard run clean
NextScript(v, d1, d2, js) ==
    IF script = -1 \/ ~Clean(d1, d2, js) THEN -1
    ELSE IF script = 0 /\ v # Secret[1] THEN 0
    ELSE IF script < 7 /\ v = Secret[script + 1]
            /\ (script + 1 = 5 => now - last.t > 1)
    THEN script + 1
    ELSE -1

NextFails(v, d1, d2, js) ==
    IF script = 0 /\ Clean(d1, d2, js) /\ v # Secret[1]
    THEN Min(fails + 1, MaxFails)
    ELSE fails

NoCall == [hook |-> "none", v |-> 0, d1 |-> 0, d2 |-> 0, js |-> "function(){debugger}",
           t |-> 0, ran |-> FALSE, report |-> "none", alerted |-> FALSE]

\* the state after a handler returned r, and the observers' record of it
Apply(hook, v, d1, d2, js, r) ==
    /\ r.s.now <= MaxTime
    /\ r.alerted => alerts < MaxAlerts
    /\ first_press' = r.s.first_press
    /\ g_func_ptr' = r.s.g_func_ptr
    /\ log_stored' = r.s.log_stored
    /\ console_log' = r.s.console_log
    /\ console_assert' = r.s.console_assert
    /\ now' = r.s.now
    /\ alerts' = IF r.alerted THEN alerts + 1 ELSE alerts
    /\ UNCHANGED <<started, exited, boot, px, mem18, memEnd, loads>>
    /\ last' = [hook |-> hook, v |-> v, d1 |-> d1, d2 |-> d2, js |-> js,
                t |-> now, ran |-> r.ran, report |-> r.report,
                alerted |-> r.alerted]
    /\ matched' = NextMatched(matched, v)
    /\ script' = NextScript(v, d1, d2, js)
    /\ fails' = NextFails(v, d1, d2, js)
    /\ trapped' = (trapped \/ (hook = "the_end" /\ r.s.console_log # "__syscall12"))
    /\ tooFast' = IF hook = "the_end" /\ now - first_press <= 1 THEN TRUE
                  ELSE IF hook = "__syscall80" /\ r.ran /\ v = 1 THEN FALSE
                  ELSE tooFast

\* ------------------------------------- operations applied on their own
Bytes == 0..255

\* int p_value: small values of both signs and the limits of a 32-bit int
Int32Probes ==
    (-MaxProbe..MaxProbe)
        \cup {-2147483647 - 1, -2147483647, -2147483640, 2147483640, 2147483647}

NoOp == [op |-> "none", a |-> 0, b |-> 0, r1 |-> 0, r |-> 0]

\* -------------------------------------------------------------- actions
InitRest ==
    /\ first_press = 0
    /\ g_func_ptr = 0
    /\ log_stored = 0
    /\ console_log = NativeLog
    /\ console_assert = NativeAssert
    /\ now = StartTime
    /\ alerts = 0
    /\ started = FALSE
    /\ exited = FALSE
    /\ last = NoCall
    /\ matched = 0
    /\ script = -1
    /\ fails = 0
    /\ trapped = FALSE
    /\ tooFast = FALSE
    /\ boot = "none"
    /\ mem18 = <<>>
    /\ memEnd = <<>>
    /\ loads = [h \in PayloadHandlers |-> 0]

Init == InitRest /\ px = NoOp

\* page load: hello fires before main, then main checks how it was launched
Start ==
    /\ ~started
    /\ \E d \in Delays, js \in AsmConstTexts, p_argc \in Argcs, p_argv0 \in Argv0s :
        LET h == hello(Cur, d, js)
            m == main(h.s, p_argc, p_argv0)
        IN  /\ m.s.now <= MaxTime
            /\ first_press' = m.s.first_press
            /\ g_func_ptr' = m.s.g_func_ptr
            /\ log_stored' = m.s.log_stored
            /\ console_log' = m.s.console_log
            /\ console_assert' = m.s.console_assert
            /\ now' = m.s.now
            /\ exited' = m.exit
            /\ script' = IF h.report = "clean" /\ ~m.exit THEN 0 ELSE -1
            /\ boot' = h.report
    /\ started' = TRUE
    /\ UNCHANGED <<alerts, last, matched, fails, trapped, tooFast,
                   px, mem18, memEnd, loads>>

\* a call of console.log(v) reaches the function console.log holds
Call80 ==
    /\ started /\ console_log = "__syscall80"
    /\ \E v \in Inputs, d1 \in Delays, d2 \in Delays, js \in AsmConstTexts :
        Apply("__syscall80", v, d1, d2, js, __syscall80(Cur, v, d1, d2, js))

Call72 ==
    /\ started /\ console_log = "__syscall72"
    /\ \E v \in Inputs, d \in Delays, js \in AsmConstTexts :
        Apply("__syscall72", v, d, 0, js, __syscall72(Cur, v, d, js))

Call42 ==
    /\ started /\ console_log = "__syscall42"
    /\ \E v \in Inputs, d \in Delays, js \in AsmConstTexts :
        Apply("__syscall42", v, d, 0, js, __syscall42(Cur, v, d, js))

Call18 ==
    /\ started /\ console_log = "__syscall18"
    /\ \E v \in Inputs, d \in Delays, js \in AsmConstTexts :
        Apply("__syscall18", v, d, 0, js, __syscall18(Cur, v, d, js))

CallTheEnd ==
    /\ started /\ console_log = "the_end"
    /\ \E v \in Inputs :
        Apply("the_end", v, 0, 0, "function(){debugger}", the_end(Cur, v))

Call12 ==
    /\ started /\ console_log = "__syscall12"
    /\ \E v \in Inputs, d \in Delays, js \in AsmConstTexts :
        Apply("__syscall12", v, d, 0, js, __syscall12(Cur, v, d, js))

Call188 ==
    /\ started /\ console_log = "__syscall188"
    /\ \E v \in Inputs, d \in Delays, js \in AsmConstTexts :
        Apply("__syscall188", v, d, 0, js, __syscall188(Cur, v, d, js))

\* console.log holds a function of the host: the value is printed, nothing
\* of the program runs
CallNative ==
    /\ started /\ console_log \in Natives
    /\ \E v \in Inputs :
        Apply(console_log, v, 0, 0, "function(){debugger}",
              [s |-> Cur, ran |-> FALSE, report |-> "none", alerted |-> FALSE])

\* the host clock advances
Tick ==
    /\ now < MaxTime
    /\ now' = now + 1
    /\ UNCHANGED <<first_press, g_func_ptr, log_stored, console_log,
                   console_assert, alerts, started, exited, last, matched,
                   script, fails, trapped, tooFast, boot, px, mem18, memEnd,
                   loads>>

Next ==
    \/ Start
    \/ Call80
    \/ Call72
    \/ Call42
    \/ Call18
    \/ CallTheEnd
    \/ Call12
    \/ Call188
    \/ CallNative
    \/ Tick

Spec == Init /\ [][Next]_vars

\* ---- the byte decode of __syscall18 applied twice to one byte
Arg(x, y) == [op |-> "arg", a |-> x, b |-> y, r1 |-> 0, r |-> 0]

InitXor == InitRest /\ \E b \in Bytes, key \in Bytes : px = Arg(b, key)

XorApply ==
    /\ px.op = "arg"
    /\ px' = [op |-> "xor_byte", a |-> px.a, b |-> px.b,
              r1 |-> xor_byte(px.a, px.b),
              r |-> xor_byte(xor_byte(px.a, px.b), px.b)]
    /\ UNCHANGED <<prog, obs, mem18, memEnd, loads>>

\* ---- the decode of the_end applied twice to one element of a Uint8Array
LolwatApply ==
    /\ px.op = "arg" /\ px.b = 187
    /\ px' = [op |-> "lolwat", a |-> px.a, b |-> 187, r1 |-> lolwat(px.a) % 256,
              r |-> lolwat(lolwat(px.a) % 256) % 256]
    /\ UNCHANGED <<prog, obs, mem18, memEnd, loads>>

NextXor == XorApply \/ LolwatApply

SpecXor == InitXor /\ [][NextXor]_vars

\* ---- the test of __syscall12 applied to one int
InitBit == InitRest /\ \E p_value \in Int32Probes : px = Arg(p_value, 0)

BitApply ==
    /\ px.op = "arg"
    /\ px' = [op |-> "__syscall12", a |-> px.a, b |-> 0, r1 |-> 0,
              r |-> IF BitTest12(px.a) THEN 1 ELSE 0]
    /\ UNCHANGED <<prog, obs, mem18, memEnd, loads>>

NextBit == BitApply

SpecBit == InitBit /\ [][NextBit]_vars

\* ---- the payload path of __syscall18 and of the_end, call after call
Run18 ==
    /\ loads["__syscall18"] < MaxLoads
    /\ \E p_value \in Inputs \cup {0, 5, 6, -7} :
        LET wasm == Payload18(mem18)
        IN  /\ mem18' = wasm
            /\ px' = [op |-> "__syscall18", a |-> p_value, b |-> 170, r1 |-> 0,
                      r |-> RunPredicate(wasm, p_value)]
    /\ loads' = [loads EXCEPT !["__syscall18"] = @ + 1]
    /\ UNCHANGED <<prog, obs, memEnd>>

RunEnd ==
    /\ loads["the_end"] < MaxLoads
    /\ \E p_value \in Inputs \cup {0, 5, 6, -7} :
        LET code == PayloadEnd(memEnd)
        IN  /\ memEnd' = code
            /\ px' = [op |-> "the_end", a |-> p_value, b |-> 187, r1 |-> 0,
                      r |-> RunPredicate(code, p_value)]
    /\ loads' = [loads EXCEPT !["the_end"] = @ + 1]
    /\ UNCHANGED <<prog, obs, mem18>>

NextPayload == Run18 \/ RunEnd

SpecPayload == Init /\ [][NextPayload]_vars

TypeOK ==
    /\ first_press \in 0..MaxTime
    /\ g_func_ptr \in {0, 1}
    /\ log_stored \in {0, 1}
    /\ console_log \in StageSet \cup Natives
    /\ console_assert \in StageSet \cup Natives
    /\ now \in StartTime..MaxTime
    /\ alerts \in 0..MaxAlerts
    /\ matched \in 0..7
    /\ script \in -1..7
    /\ fails \in 0..MaxFails

\* --------------------------------------------------------------- claims
\* the position of a hook in the chain
StageOf(hook) == CHOOSE i \in 1..7 : StageHooks[i] = hook

Detected == {"inspector", "tampered"}

LastClean == Clean(last.d1, last.d2, last.js)

\* the last input went to a stage handler and was not that stage's digit
LastWrong == last.hook \in StageSet /\ last.v # Secret[StageOf(last.hook)]

\* C1: from the armed initial state the inputs 1,9,4,7, a wait of more than
\* one second, 4,8,2, with every guard run clean, are handled by stages 1..7
\* in order, each installing the next, and the alert is shown exactly once.
C1_WinningRun ==
    fails = 0 =>
        /\ script \in 1..7 => last.hook = StageHooks[script]
        /\ script \in 0..6 => console_log = StageHooks[script + 1]
        /\ script \in 0..6 => alerts = 0
        /\ script = 7 => (alerts = 1 /\ last.alerted)

C1_Witness == fails = 0 /\ script = 7

\* C2: whenever the alert is shown, the last seven inputs are 1,9,4,7,4,8,2.
C2_SuccessOnlyAfterCode == last.alerted => matched = 7

C5_GuardBeforeValidator_Orig ==
    (last.hook \in StageSet /\ (last.d1 # 0 \/ last.js # "function(){debugger}"))
        => (~last.ran /\ ~last.alerted /\ console_log \notin StageSet \ {"__syscall80"})

\* C5 amended: only the first-digit handler runs a check before its digit
\* check, and only the inspector check: when that reports a pause the digit
\* check does not run, nothing is shown and console.log becomes the saved
\* copy.  The handlers of stages 2, 3, 4, 6 and 7 always run their digit
\* check, whatever the guard would report.
C5_GuardBeforeValidator ==
    /\ (last.hook = "__syscall80" /\ last.d1 # 0)
        => (~last.ran /\ last.report = "inspector" /\ ~last.alerted
            /\ console_log = console_assert)
    /\ last.hook \in {"__syscall72", "__syscall42", "__syscall18",
                      "__syscall12", "__syscall188"} => last.ran

C5_Witness == last.hook = "__syscall80" /\ last.d1 # 0 /\ last.v = 1

\* C6: when the fifth-digit handler runs with now - first_press <= 1, the
\* hook afterwards is no stage's entry, whatever the input.
C6_FastFifthDigitTraps ==
    (last.hook = "the_end" /\ last.t - first_press <= 1)
        => console_log \notin StageSet

\* C7: once the fifth-digit handler has taken its failure path, no later
\* input changes console.log or shows the alert.
C7_TrapAbsorbing ==
    [][trapped => (console_log' = console_log /\ alerts' = alerts)]_vars

\* C8: after the fifth-digit handler ran within a second of first_press, the
\* alert is not shown until a first digit has been accepted again.
C8_TooFastNeverWins ==
    [][tooFast => alerts' = alerts]_vars

\* C9 as claimed: when the seventh digit matches, the alert is shown and no
\* stage hook is installed afterwards.
C9_SuccessTerminates_Orig ==
    (last.hook = "__syscall188" /\ last.v = 2)
        => (last.alerted /\ console_log \notin StageSet)

\* C9 amended: when the seventh digit matches, the alert is shown and the
\* handler then runs the guard as after a failure: if the guard is clean the
\* first-digit hook is installed again and later inputs are handled by it,
\* otherwise console.log becomes the saved copy.
C9_SuccessThenReset ==
    (last.hook = "__syscall188" /\ last.v = 2)
        => /\ last.alerted
           /\ last.report # "none"
           /\ last.report = "clean" => console_log = "__syscall80"
           /\ last.report \in Detected => console_log = console_assert

C9_Witness ==
    /\ last.hook = "__syscall188" /\ last.v = 2 /\ last.report = "clean"
    /\ console_log = "__syscall80"

\* C10: with the guard clean, the first and the second wrong first digit
\* (and any further one) leave console.log at the first-digit hook, and the
\* winning run that follows passes the stages and shows the alert once, as
\* from the initial state.
C10_ResetIdempotent ==
    fails >= 1 =>
        /\ script = 0 => (console_log = "__syscall80" /\ last.hook = "__syscall80")
        /\ script \in 1..7 => last.hook = StageHooks[script]
        /\ script \in 1..6 => console_log = StageHooks[script + 1]
        /\ script \in 0..6 => alerts = 0
        /\ script = 7 => (alerts = 1 /\ last.alerted)

C10_Witness == fails = MaxFails /\ script = 7

\* C11: the byte decode applied twice with one key gives the byte back, for
\* every byte and every key, and so does the decode of the fifth-digit
\* payload with its key 0xbb; one application stays within a byte.
C11_DecodeInvolution ==
    px.op \in {"xor_byte", "lolwat"} => (px.r = px.a /\ px.r1 \in Bytes)

C11_Witness ==
    px.op = "xor_byte" /\ px.a = 203 /\ px.b = 170 /\ px.r1 = 97 /\ px.r = 203

\* C12: when main is entered with an argument count other than 1 or another
\* program name, console.log is no stage's hook afterwards, the program has
\* exited and no input ever reaches a handler of the chain.
C12_LaunchViolationTearsDown ==
    exited => /\ console_log \in Natives
              /\ last.hook \notin StageSet
              /\ ~last.ran
              /\ alerts = 0
              /\ g_func_ptr = 0

C12_Witness ==
    exited /\ boot = "clean" /\ last.hook = NativeLog /\ last.v = 1

\* C13: for stages 1..6, when the active stage's digit is given (guard clean,
\* and at stage 5 more than a second after first_press) console.log becomes
\* the next stage's hook and the saved copy, the armed flag, the dispatch
\* pointer and the alert count are unchanged.
C13_MatchAdvances ==
    [][\A n \in 1..6 :
        (/\ started /\ console_log = StageHooks[n]
         /\ last'.hook = StageHooks[n] /\ last'.t = now
         /\ last'.v = Secret[n]
         /\ Clean(last'.d1, last'.d2, last'.js)
         /\ (n = 5 => now - first_press > 1))
        => (/\ console_log' = StageHooks[n + 1]
            /\ console_assert' = console_assert
            /\ log_stored' = log_stored
            /\ g_func_ptr' = g_func_ptr
            /\ alerts' = alerts)]_vars

C13_Witness ==
    /\ last.hook = "the_end" /\ last.v = 4 /\ last.ran
    /\ console_log = "__syscall12" /\ alerts = 0

\* C14 as claimed: first_press changes only when the first digit matched.
C14_TimestampOnMatch_Orig ==
    [][first_press' # first_press
        => (last'.hook = "__syscall80" /\ last'.v = 1 /\ last'.ran)]_vars

\* C14 amended: first_press is written by every call of the first-digit
\* handler whose inspector check passes, whether or not the digit matches,
\* and by nothing else: inputs at stages 2..7 leave it unchanged.
C14_TimestampOnVisit ==
    /\ []((last.hook = "__syscall80" /\ last.d1 = 0) => first_press = last.t)
    /\ [][first_press' # first_press
            => (console_log = "__syscall80" /\ last'.hook = "__syscall80"
                /\ last'.d1 = 0 /\ first_press' = now)]_vars

C14_Witness ==
    /\ last.hook = "__syscall80" /\ last.v # 1 /\ last.d1 = 0
    /\ first_press = last.t

\* hello ran while the last input was handled
HelloRan ==
    \/ last.hook \in {"__syscall72", "__syscall42", "__syscall18",
                      "__syscall12", "__syscall188"} /\ last.report # "none"
    \/ last.hook = "__syscall80" /\ last.d1 = 0 /\ last.ran /\ last.v # 1

\* C15: when hello ran and its inspector check or its comparison failed, the
\* first-digit hook is not what it leaves in console.log.
C15_ArmOnlyWhenClean ==
    (HelloRan /\ last.report \in Detected) => console_log # "__syscall80"

\* C16: a detection neutralizes console.log only when log_stored is set: a
\* detection in the very first guard run leaves console.log, console.assert
\* and log_stored as the host had them (main's own restore apart), and a
\* detection while a handler runs, log_stored being 1, puts the saved copy
\* into console.log.
C16_NeutralizeOnlyIfStored ==
    /\ boot \in Detected =>
        /\ log_stored = 0
        /\ console_assert = NativeAssert
        /\ ~exited => console_log = NativeLog
    /\ last.report \in Detected => (log_stored = 1 /\ console_log = console_assert)

C16_Witness ==
    boot = "inspector" /\ ~exited /\ last.hook = NativeLog /\ last.v = 1

\* C17: the saved copy in console.assert is always a function of the host,
\* never a stage's hook.
C17_SavedCopyIsHostFunction == console_assert \in Natives

\* C18: the bit test of the sixth-digit handler accepts an int exactly when
\* it is 8.
C18_BitTestIsEight ==
    px.op = "__syscall12" => (px.r = 1 <=> px.a = 8)

C18_Witness == px.op = "__syscall12" /\ px.a = 8 /\ px.r = 1

\* the bytes are a module in the clear: magic, version and a predicate body
IsPlainModule(bytes) ==
    /\ Len(bytes) >= 8
    /\ SubSeq(bytes, 1, 8) = <<0, 97, 115, 109, 1, 0, 0, 0>>
    /\ RunPredicate(bytes, 0) # -1

\* C19: on every call of the fourth- and fifth-digit handlers, however many
\* went before, the module instantiated is the payload decoded once, and the
\* answer for an input is the same on every call (7, and 4, are accepted).
C19_DecodedOnceEachCall ==
    /\ px.op = "__syscall18" =>
        (IsPlainModule(mem18) /\ mem18 # wasm18
         /\ px.r = IF px.a = 7 THEN 1 ELSE 0)
    /\ px.op = "the_end" =>
        (IsPlainModule(memEnd) /\ memEnd # wasmCode
         /\ px.r = IF px.a = 4 THEN 1 ELSE 0)

C19_Witness ==
    /\ loads["__syscall18"] = MaxLoads /\ loads["the_end"] >= 2
    /\ px.op = "__syscall18" /\ px.a = 7 /\ px.r = 1

====
